---- MODULE Spec2Model ----
(***************************************************************************)
(* Colour value types (RGBA, HSLA, HSVA, HSIA), the hub representation     *)
(* ColorHCMA and the pairwise conversions of the colors crate.             *)
(*                                                                         *)
(* A component (f32 in the source) has one of two representations.  The    *)
(* colours built from the input grids are exact rationals <<n, d>> in      *)
(* lowest terms with d > 0, so that properties stated over the reals are   *)
(* checked without rounding.  The rows of the reference table are binary32 *)
(* values <<m, e, 32>> standing for m * 2^e with 2^23 <= |m| < 2^24 (zero  *)
(* is <<0, 0, 32>>), and every operation with a binary32 operand rounds to *)
(* nearest, ties to even, as the hardware does.  The result of a division  *)
(* by zero is NaN == <<0, 0>> in both.                                     *)
(***************************************************************************)
EXTENDS Integers, Sequences, FiniteSets, TLC

\* ------------------------------------------------------------ bounds
\* Non-hue components are drawn from the multiples of 1/Den in [-1/Den, 1 + 1/Den].
Den == 4
\* Hues are drawn from the multiples of 1/HueDen in [-1/4, 5/4].
HueDen == 12
\* Alphas are drawn from the odd and even multiples of 1/AlphaDen around [0, 1].
AlphaDen == 2
\* The longest chain of conversions applied to one constructed colour.
MaxConv == 2
\* The longest array given to ColorND::new.
MaxN == 3

\* ------------------------------------------------------- f32 values
\* The result of a division by zero (the source's inf and NaN alike).
NaN == <<0, 0>>

IsNaN(x) == Len(x) = 2 /\ x[2] = 0

IsF32(x) == Len(x) = 3

AbsInt(n) == IF n < 0 THEN -n ELSE n

Sign(n) == IF n < 0 THEN -1 ELSE IF n > 0 THEN 1 ELSE 0

RECURSIVE GCD(_, _)
GCD(a, b) == IF b = 0 THEN a ELSE GCD(b, a % b)

\* The rational n / d in lowest terms; g is the greatest common divisor.
RatOf(n, d, g) == <<n \div g, d \div g>>

Rat(n, d) ==
    IF d = 0 THEN NaN
    ELSE IF d < 0 THEN RatOf(-n, -d, GCD(AbsInt(n), -d))
    ELSE RatOf(n, d, GCD(AbsInt(n), d))

Zero == <<0, 1>>
Half == <<1, 2>>
One == <<1, 1>>
Two == <<2, 1>>
Three == <<3, 1>>
Six == <<6, 1>>

\* Exact arithmetic on rationals.
QAddOf(x, y, g) ==
    Rat(x[1] * (y[2] \div g) + y[1] * (x[2] \div g), (x[2] \div g) * y[2])

QAdd(x, y) == QAddOf(x, y, GCD(x[2], y[2]))

QMulOf(x, y, g1, g2) ==
    <<(x[1] \div g1) * (y[1] \div g2), (x[2] \div g2) * (y[2] \div g1)>>

QMul(x, y) == QMulOf(x, y, GCD(AbsInt(x[1]), y[2]), GCD(AbsInt(y[1]), x[2]))

QDiv(x, y) == QMul(x, IF y[1] < 0 THEN <<-y[2], -y[1]>> ELSE <<y[2], y[1]>>)

QLt(x, y) == x[1] * y[2] < y[1] * x[2]

\* IEEE 754 binary32 arithmetic, round to nearest, ties to even.
F32Zero == <<0, 0, 32>>

\* The number of bits of n > 0.
BitLen(n) == CHOOSE L \in 1..31 : 2^(L - 1) <= n /\ (L = 31 \/ n < 2^L)

\* A significand q that rounding carried up to 2^24 is renormalised.
F32Carry(sign, q, e) ==
    IF q = 2^24 THEN <<sign * 2^23, e + 1, 32>> ELSE <<sign * q, e, 32>>

\* q with the bits r cut off below it: up when r is above half, or is half
\* and something lies beyond it (sticky) or q is odd.
F32RoundOff(sign, q, r, half, e, sticky) ==
    F32Carry(sign,
             IF r > half \/ (r = half /\ (sticky \/ q % 2 = 1)) THEN q + 1 ELSE q,
             e)

\* n has L bits: widened to 24 bits, or cut to 24 bits and rounded.
F32Round(sign, n, e, sticky, L) ==
    IF L <= 24 THEN <<sign * n * 2^(24 - L), e - (24 - L), 32>>
    ELSE F32RoundOff(sign, n \div 2^(L - 24), n % 2^(L - 24), 2^(L - 25),
                     e + (L - 24), sticky)

\* The binary32 value nearest to sign * n * 2^e, where sticky says that the
\* exact magnitude lies strictly between n * 2^e and (n + 1) * 2^e.
F32Pack(sign, n, e, sticky) ==
    IF n = 0 THEN F32Zero ELSE F32Round(sign, n, e, sticky, BitLen(n))

\* The 48-bit product hi * 2^24 + lo of two significands, rounded.
F32MulPack(sign, hi, lo, e) ==
    F32Pack(sign, hi * 64 + (lo \div 2^18), e + 18, lo % 2^18 # 0)

\* The partial products hh * 2^24 + mid * 2^12 + ll, summed.
F32MulSum(sign, hh, mid, ll, e) ==
    F32MulPack(sign,
               hh + (mid \div 4096) + ((ll + (mid % 4096) * 4096) \div 2^24),
               (ll + (mid % 4096) * 4096) % 2^24,
               e)

\* The significands a and b, 12 bits at a time.
F32MulParts(sign, a, b, e) ==
    F32MulSum(sign, (a \div 4096) * (b \div 4096),
              (a \div 4096) * (b % 4096) + (a % 4096) * (b \div 4096),
              (a % 4096) * (b % 4096), e)

F32Mul(x, y) ==
    IF x[1] = 0 \/ y[1] = 0 THEN F32Zero
    ELSE F32MulParts(Sign(x[1]) * Sign(y[1]), AbsInt(x[1]), AbsInt(y[1]), x[2] + y[2])

\* One more group of k bits of the quotient by b (long division).
F32DivStep(qr, b, k) == <<qr[1] * 2^k + ((qr[2] * 2^k) \div b), (qr[2] * 2^k) % b>>

\* The quotient a / b to 28 fractional bits, with its remainder.
F32DivDigits(a, b) ==
    F32DivStep(F32DivStep(F32DivStep(F32DivStep(F32DivStep(
        <<a \div b, a % b>>, b, 6), b, 6), b, 6), b, 6), b, 4)

F32DivPack(sign, qr, e) == F32Pack(sign, qr[1], e - 28, qr[2] # 0)

F32Div(x, y) ==
    IF y[1] = 0 THEN NaN
    ELSE IF x[1] = 0 THEN F32Zero
    ELSE F32DivPack(Sign(x[1]) * Sign(y[1]),
                    F32DivDigits(AbsInt(x[1]), AbsInt(y[1])), x[2] - y[2])

\* The sum n * 2^e of two significands brought to the same exponent.
F32AddNear(n, e) == F32Pack(Sign(n), AbsInt(n), e, FALSE)

\* x + y with x more than 6 binary places above y: lo is the part of y that
\* reaches the 6 guard bits under x, sticky says that y has bits below them.
F32AddFar(x, ysign, lo, sticky) ==
    F32Pack(Sign(x[1]),
            IF Sign(x[1]) = ysign THEN AbsInt(x[1]) * 64 + lo
            ELSE IF sticky THEN AbsInt(x[1]) * 64 - lo - 1
            ELSE AbsInt(x[1]) * 64 - lo,
            x[2] - 6, sticky)

\* x + y where the exponent of x is not below that of y.
F32AddOrdered(x, y) ==
    IF x[2] - y[2] <= 6 THEN F32AddNear(x[1] * 2^(x[2] - y[2]) + y[1], y[2])
    ELSE F32AddFar(x, Sign(y[1]),
                   IF x[2] - y[2] - 6 >= 25 THEN 0
                   ELSE AbsInt(y[1]) \div 2^(x[2] - y[2] - 6),
                   x[2] - y[2] - 6 >= 25 \/ AbsInt(y[1]) % 2^(x[2] - y[2] - 6) # 0)

F32Add(x, y) ==
    IF x[1] = 0 THEN y
    ELSE IF y[1] = 0 THEN x
    ELSE F32AddOrdered(IF x[2] >= y[2] THEN x ELSE y, IF x[2] >= y[2] THEN y ELSE x)

F32Lt(x, y) ==
    IF Sign(x[1]) # Sign(y[1]) THEN Sign(x[1]) < Sign(y[1])
    ELSE IF x[1] = 0 THEN FALSE
    ELSE IF x[1] > 0 THEN x[2] < y[2] \/ (x[2] = y[2] /\ x[1] < y[1])
    ELSE x[2] > y[2] \/ (x[2] = y[2] /\ x[1] < y[1])

\* The binary32 value of a rational, and of a value that already is one.
ToF32(x) ==
    IF IsF32(x) \/ IsNaN(x) THEN x
    ELSE F32Div(F32Pack(Sign(x[1]), AbsInt(x[1]), 0, FALSE), F32Pack(1, x[2], 0, FALSE))

\* The f32 literal written n / d in decimal.
Lit(n, d) == ToF32(Rat(n, d))

\* The operations of the source: binary32 as soon as one operand is.
Neg(x) ==
    IF IsNaN(x) THEN NaN
    ELSE IF IsF32(x) THEN <<-x[1], x[2], 32>>
    ELSE <<-x[1], x[2]>>

Abs(x) ==
    IF IsNaN(x) THEN NaN
    ELSE IF IsF32(x) THEN <<AbsInt(x[1]), x[2], 32>>
    ELSE <<AbsInt(x[1]), x[2]>>

Add(x, y) ==
    IF IsNaN(x) \/ IsNaN(y) THEN NaN
    ELSE IF IsF32(x) \/ IsF32(y) THEN F32Add(ToF32(x), ToF32(y))
    ELSE QAdd(x, y)

Sub(x, y) == Add(x, Neg(y))

Mul(x, y) ==
    IF IsNaN(x) \/ IsNaN(y) THEN NaN
    ELSE IF IsF32(x) \/ IsF32(y) THEN F32Mul(ToF32(x), ToF32(y))
    ELSE QMul(x, y)

Div(x, y) ==
    IF IsNaN(x) \/ IsNaN(y) \/ y[1] = 0 THEN NaN
    ELSE IF IsF32(x) \/ IsF32(y) THEN F32Div(ToF32(x), ToF32(y))
    ELSE QDiv(x, y)

\* Comparisons; every comparison with NaN is false.
Lt(x, y) ==
    /\ ~IsNaN(x)
    /\ ~IsNaN(y)
    /\ IF IsF32(x) \/ IsF32(y) THEN F32Lt(ToF32(x), ToF32(y)) ELSE QLt(x, y)

Eq(x, y) ==
    /\ ~IsNaN(x)
    /\ ~IsNaN(y)
    /\ IF IsF32(x) \/ IsF32(y) THEN ToF32(x) = ToF32(y) ELSE x = y

Le(x, y) == Lt(x, y) \/ Eq(x, y)

\* f32::trunc, as an integer: rounding toward zero.
Trunc(x) ==
    IF IsF32(x)
    THEN (IF x[2] >= 0 THEN x[1] * 2^(x[2])
          ELSE IF -x[2] >= 25 THEN 0
          ELSE Sign(x[1]) * (AbsInt(x[1]) \div 2^(-x[2])))
    ELSE IF x[1] < 0 THEN -((-x[1]) \div x[2]) ELSE x[1] \div x[2]

\* f32 % f32: the remainder with the sign of the dividend (exact; the
\* divisors of the source are the powers of two 1.0 and 2.0).
Rem(x, rhs) ==
    IF IsNaN(x) \/ IsNaN(rhs) \/ rhs[1] = 0 THEN NaN
    ELSE Sub(x, Mul(Rat(Trunc(Div(x, rhs)), 1), rhs))

\* f32::rem_euclid: the least non-negative remainder; r is x % rhs.
rem_euclid_of(r, rhs) == IF Lt(r, Zero) THEN Add(r, Abs(rhs)) ELSE r

rem_euclid(x, rhs) == rem_euclid_of(Rem(x, rhs), rhs)

\* f32::div_euclid: the quotient that goes with rem_euclid; q is
\* (x / rhs).trunc().
div_euclid_of(q, x, rhs) ==
    IF Lt(Rem(x, rhs), Zero)
    THEN (IF Lt(Zero, rhs) THEN Sub(q, One) ELSE Add(q, One))
    ELSE q

div_euclid(x, rhs) == div_euclid_of(Rat(Trunc(Div(x, rhs)), 1), x, rhs)

\* f32::clamp(min, max).
clamp_no_upper(x, min, max) == IF Lt(x, min) THEN min ELSE x
clamp(x, min, max) == IF Lt(x, min) THEN min ELSE IF Lt(max, x) THEN max ELSE x

\* `as usize` on an integral f32: truncates, negative values saturate to 0.
as_usize(x) == IF Lt(x, Zero) THEN 0 ELSE Trunc(x)

\* f32::round followed by `as i32`: the nearest integer, halves away from zero.
round(x) ==
    IF IsF32(x)
    THEN (IF x[2] >= 0 THEN x[1] * 2^(x[2])
          ELSE IF -x[2] > 25 THEN 0
          ELSE Sign(x[1]) * ((AbsInt(x[1]) + 2^(-x[2] - 1)) \div 2^(-x[2])))
    ELSE Sign(x[1]) * ((2 * AbsInt(x[1]) + x[2]) \div (2 * x[2]))

\* ------------------------------------------------------ value types
\* ColorRGBA
ColorRGBA_new(r, g, b, a) ==
    [r |-> clamp(r, Zero, One), g |-> clamp(g, Zero, One),
     b |-> clamp(b, Zero, One), a |-> clamp(a, Zero, One)]

ColorRGBA_new_rgb_alpha0(r, g, b) == ColorRGBA_new(r, g, b, Zero)
ColorRGBA_new_rgb(r, g, b) == ColorRGBA_new(r, g, b, One)

ColorRGBA_new_unsafe(r, g, b, a) == [r |-> r, g |-> g, b |-> b, a |-> a]

ColorRGBA_get_red(color) == color.r
ColorRGBA_get_green(color) == color.g
ColorRGBA_get_blue(color) == color.b
ColorRGBA_get_alpha(color) == color.a
ColorRGBA_get(color) == <<color.r, color.g, color.b, color.a>>

\* ColorHSLA
ColorHSLA_new(h, s, l, a) ==
    [h |-> rem_euclid(h, One), s |-> clamp(s, Zero, One),
     l |-> clamp(l, Zero, One), a |-> clamp(a, Zero, One)]

ColorHSLA_new_hsl(h, s, l) == ColorHSLA_new(h, s, l, One)

ColorHSLA_new_unsafe(h, s, l, a) == [h |-> h, s |-> s, l |-> l, a |-> a]

ColorHSLA_get_hue(color) == color.h
ColorHSLA_get_saturation(color) == color.s
ColorHSLA_get_lightness(color) == color.l
ColorHSLA_get_alpha(color) == color.a
ColorHSLA_get(color) == <<color.h, color.s, color.l, color.a>>

\* ColorHSVA
ColorHSVA_new(h, s, v, a) ==
    [h |-> rem_euclid(h, One), s |-> clamp(s, Zero, One),
     v |-> clamp(v, Zero, One), a |-> clamp(a, Zero, One)]

ColorHSVA_new_hsv(h, s, v) == ColorHSVA_new(h, s, v, One)

ColorHSVA_new_unsafe(h, s, v, a) == [h |-> h, s |-> s, v |-> v, a |-> a]

ColorHSVA_get_hue(color) == color.h
ColorHSVA_get_saturation(color) == color.s
ColorHSVA_get_value(color) == color.v
ColorHSVA_get_alpha(color) == color.a
ColorHSVA_get(color) == <<color.h, color.s, color.v, color.a>>

\* ColorHSIA
ColorHSIA_new(h, s, i, a) ==
    [h |-> rem_euclid(h, One), s |-> clamp(s, Zero, One),
     i |-> clamp(i, Zero, One), a |-> clamp(a, Zero, One)]

ColorHSIA_new_hsi(h, s, i) == ColorHSIA_new(h, s, i, One)

ColorHSIA_new_unsafe(h, s, i, a) == [h |-> h, s |-> s, i |-> i, a |-> a]

ColorHSIA_get_hue(color) == color.h
ColorHSIA_get_saturation(color) == color.s
ColorHSIA_get_intensity(color) == color.i
ColorHSIA_get_alpha(color) == color.a
ColorHSIA_get_swapped(color) == <<color.s, color.h, color.i, color.a>>
ColorHSIA_get(color) == <<color.h, color.s, color.i, color.a>>

\* ------------------------------------------------------------- hub
\* The outcome of a usize subtraction that goes below zero.
Panic == [panic |-> TRUE]

IsPanic(v) == "panic" \in DOMAIN v

\* from_rgb, lines 29-42: the places of the smallest and largest component.
from_rgb_min_max_lower(colors) ==
    IF Le(colors[0], colors[1]) /\ Le(colors[0], colors[2])
    THEN <<0, IF Lt(colors[1], colors[2]) THEN 2 ELSE 1>>
    ELSE IF Le(colors[1], colors[2])
    THEN <<1, IF Lt(colors[0], colors[2]) THEN 2 ELSE 0>>
    ELSE <<2, IF Lt(colors[0], colors[1]) THEN 1 ELSE 0>>
from_rgb_min_max(colors) ==
    IF Lt(colors[0], colors[1]) /\ Lt(colors[0], colors[2])
    THEN <<0, IF Lt(colors[1], colors[2]) THEN 2 ELSE 1>>
    ELSE IF Lt(colors[1], colors[2])
    THEN <<1, IF Lt(colors[0], colors[2]) THEN 2 ELSE 0>>
    ELSE <<2, IF Lt(colors[0], colors[1]) THEN 1 ELSE 0>>

\* from_rgb, lines 45-53: hue_major, hue_minor, m, c and x from the places
\* of the smallest and largest component.
from_rgb_pick(colors, i_min, i_max, hue_major, hue_minor) ==
    [colors |-> colors, i_min |-> i_min, i_max |-> i_max,
     hue_major |-> hue_major, hue_minor |-> hue_minor,
     m |-> colors[i_min],
     c |-> Sub(colors[i_max], colors[i_min]),
     x |-> Sub(colors[(hue_major + ((hue_minor + 1) % 2)) % 3], colors[i_min])]

from_rgb_places(colors, i_min, i_max) ==
    from_rgb_pick(colors, i_min, i_max,
                  (i_min + 1) % 3, (((i_max + 3) - i_min) % 3) - 1)

from_rgb_channels(colors, mm) == from_rgb_places(colors, mm[1], mm[2])

\* from_rgb, lines 27-53: its local variables.
from_rgb_locals(color) ==
    from_rgb_channels(
        [k \in 0..2 |->
            IF k = 0 THEN ColorRGBA_get_red(color)
            ELSE IF k = 1 THEN ColorRGBA_get_green(color)
            ELSE ColorRGBA_get_blue(color)],
        from_rgb_min_max(
            [k \in 0..2 |->
                IF k = 0 THEN ColorRGBA_get_red(color)
                ELSE IF k = 1 THEN ColorRGBA_get_green(color)
                ELSE ColorRGBA_get_blue(color)]))

\* from_rgb, lines 65-73: the hue from q = x / c, and the value returned.
from_rgb_hue(v, a, q) ==
    [locals |-> v, divides |-> TRUE,
     result |-> [h |-> Div(Add(Rat(2 * v.hue_major, 1),
                               IF v.hue_minor = 0 THEN q ELSE Sub(Two, q)),
                           Six),
                 c |-> v.c, m |-> v.m, a |-> a]]

\* from_rgb, lines 55-73: the path taken once the locals v are set.  divides
\* says whether the division x / c of line 66 is evaluated, result is the
\* value returned.
from_rgb_after_no_gray_case(v, a) == from_rgb_hue(v, a, Div(v.x, v.c))
from_rgb_after(v, a) ==
    IF Eq(v.c, Zero)
    THEN [locals |-> v, divides |-> FALSE,
          result |-> [h |-> Zero, c |-> Zero, m |-> v.m, a |-> a]]
    ELSE from_rgb_hue(v, a, Div(v.x, v.c))

from_rgb_run(color) == from_rgb_after(from_rgb_locals(color), ColorRGBA_get_alpha(color))

from_rgb(color) == from_rgb_run(color).result

\* from_hsv after `let c`.
from_hsv_m_is_value(color) ==
    [h |-> ColorHSVA_get_hue(color),
     c |-> Mul(ColorHSVA_get_value(color), ColorHSVA_get_saturation(color)),
     m |-> ColorHSVA_get_value(color), a |-> ColorHSVA_get_alpha(color)]
from_hsv_c(color, c) ==
    [h |-> ColorHSVA_get_hue(color), c |-> c,
     m |-> Sub(ColorHSVA_get_value(color), c), a |-> ColorHSVA_get_alpha(color)]

from_hsv(color) ==
    from_hsv_c(color, Mul(ColorHSVA_get_value(color), ColorHSVA_get_saturation(color)))

\* from_hsl after `let c`.
from_hsl_c_gray_hue_reset(color, c) ==
    [h |-> IF Eq(c, Zero) THEN Zero ELSE ColorHSLA_get_hue(color), c |-> c,
     m |-> Sub(ColorHSLA_get_lightness(color), Mul(Half, c)),
     a |-> ColorHSLA_get_alpha(color)]
from_hsl_c(color, c) ==
    [h |-> ColorHSLA_get_hue(color), c |-> c,
     m |-> Sub(ColorHSLA_get_lightness(color), Mul(Half, c)),
     a |-> ColorHSLA_get_alpha(color)]

from_hsl(color) ==
    from_hsl_c(color,
               Mul(Sub(One, Abs(Sub(Mul(Two, ColorHSLA_get_lightness(color)), One))),
                   ColorHSLA_get_saturation(color)))

\* from_hsi after `let z`.
from_hsi_z_undivided(color, z) ==
    [h |-> ColorHSIA_get_hue(color),
     c |-> Mul(Mul(Three, ColorHSIA_get_intensity(color)), ColorHSIA_get_saturation(color)),
     m |-> Mul(ColorHSIA_get_intensity(color), Sub(One, ColorHSIA_get_saturation(color))),
     a |-> ColorHSIA_get_alpha(color)]
from_hsi_z(color, z) ==
    [h |-> ColorHSIA_get_hue(color),
     c |-> Div(Mul(Mul(Three, ColorHSIA_get_intensity(color)),
                   ColorHSIA_get_saturation(color)),
               Add(One, z)),
     m |-> Mul(ColorHSIA_get_intensity(color), Sub(One, ColorHSIA_get_saturation(color))),
     a |-> ColorHSIA_get_alpha(color)]

from_hsi(color) ==
    from_hsi_z(color,
               Sub(One, Abs(Sub(rem_euclid(Mul(Six, ColorHSIA_get_hue(color)), Two), One))))

\* to_rgb: the return statement; i is the index `hp.div_euclid(2.0) as usize`,
\* and an index (3 - i) below zero overflows usize.
to_rgb_new_unrotated(self, colors, i) ==
    IF i > 3 THEN Panic
    ELSE ColorRGBA_new_unsafe(Add(colors[0], self.m), Add(colors[1], self.m),
                              Add(colors[2], self.m), self.a)
to_rgb_new(self, colors, i) ==
    IF i > 3 THEN Panic
    ELSE ColorRGBA_new_unsafe(Add(colors[(3 - i) % 3], self.m),
                              Add(colors[(4 - i) % 3], self.m),
                              Add(colors[(5 - i) % 3], self.m),
                              self.a)

to_rgb_colors_first_order(self, r, x) ==
    [k \in 0..2 |-> IF k = 0 THEN self.c ELSE IF k = 1 THEN x ELSE Zero]
\* to_rgb: the order of the colors; r is hp.rem_euclid(2.0).
to_rgb_colors(self, r, x) ==
    IF Lt(r, One)
    THEN [k \in 0..2 |-> IF k = 0 THEN self.c ELSE IF k = 1 THEN x ELSE Zero]
    ELSE [k \in 0..2 |-> IF k = 0 THEN x ELSE IF k = 1 THEN self.c ELSE Zero]

to_rgb_rem_no_complement(self, r, i) ==
    to_rgb_new(self, to_rgb_colors(self, r, Mul(self.c, Abs(Sub(r, One)))), i)
\* to_rgb after hp.rem_euclid(2.0), which the source evaluates twice.
to_rgb_rem(self, r, i) ==
    to_rgb_new(self, to_rgb_colors(self, r, Mul(self.c, Sub(One, Abs(Sub(r, One))))), i)

\* to_rgb after `let hp`.
to_rgb_hp(self, hp) ==
    to_rgb_rem(self, rem_euclid(hp, Two), as_usize(div_euclid(hp, Two)))

to_rgb(self) == to_rgb_hp(self, Mul(self.h, Six))

\* to_hsv after `let v`.
to_hsv_no_guard(self) ==
    ColorHSVA_new_unsafe(self.h, Div(self.c, Add(self.m, self.c)),
                         Add(self.m, self.c), self.a)
to_hsv_v_undivided(self, v) ==
    ColorHSVA_new_unsafe(self.h, IF Eq(v, Zero) THEN Zero ELSE self.c, v, self.a)
to_hsv_v(self, v) ==
    ColorHSVA_new_unsafe(self.h, IF Eq(v, Zero) THEN Zero ELSE Div(self.c, v), v, self.a)

to_hsv(self) == to_hsv_v(self, Add(self.m, self.c))

\* to_hsl after `let z`, and after `let l`.
to_hsl_z_opaque(self, l, z) ==
    ColorHSLA_new_unsafe(self.h, IF Eq(z, Zero) THEN Zero ELSE Div(self.c, z), l, One)
to_hsl_z(self, l, z) ==
    ColorHSLA_new_unsafe(self.h, IF Eq(z, Zero) THEN Zero ELSE Div(self.c, z), l, self.a)

to_hsl_l(self, l) == to_hsl_z(self, l, Sub(One, Abs(Sub(Mul(Two, l), One))))

to_hsl(self) == to_hsl_l(self, Add(self.m, Mul(Half, self.c)))

\* to_hsi after `let i`.
to_hsi_i_no_guard(self, i) ==
    ColorHSIA_new_unsafe(self.h, Sub(One, Div(self.m, i)), i, self.a)
to_hsi_i(self, i) ==
    ColorHSIA_new_unsafe(self.h, IF Eq(i, Zero) THEN Zero ELSE Sub(One, Div(self.m, i)),
                         i, self.a)

to_hsi_no_z(self) == to_hsi_i(self, Add(self.m, Div(self.c, Three)))
to_hsi(self) ==
    to_hsi_i(self,
             Add(self.m,
                 Div(Mul(self.c,
                         Add(One, Sub(One, Abs(Sub(rem_euclid(Mul(Six, self.h), Two),
                                                   One))))),
                     Three)))

\* ---------------------------------------------------------- facade
\* Each function encodes its argument into the hub and decodes the hub.
rgb_to_hsv(color) == to_hsv(from_rgb(color))
rgb_to_hsl(color) == to_hsl(from_rgb(color))
rgb_to_hsi(color) == to_hsi(from_rgb(color))
hsv_to_hsl(color) == to_hsl(from_hsv(color))
hsv_to_hsi(color) == to_hsi(from_hsv(color))
hsv_to_rgb(color) == to_rgb(from_hsv(color))
hsl_to_hsi(color) == to_hsi(from_hsl(color))
hsl_to_rgb(color) == to_rgb(from_hsl(color))
hsl_to_hsv_bypassing_hub(color) ==
    ColorHSVA_new_unsafe(ColorHSLA_get_hue(color), ColorHSLA_get_saturation(color),
                         ColorHSLA_get_lightness(color), ColorHSLA_get_alpha(color))
hsl_to_hsv(color) == to_hsv(from_hsl(color))
hsi_to_rgb(color) == to_rgb(from_hsi(color))
hsi_to_hsv(color) == to_hsv(from_hsi(color))
hsi_to_hsl(color) == to_hsl(from_hsi(color))

\* ------------------------------------------------------------ helper.rs
\* f32::min.
f32_min(x, other) == IF Lt(other, x) THEN other ELSE x

\* hsl_to_rgb of helper.rs: the closure f after `let k` and `let a`.
helper_f_of(color, k, a) ==
    Sub(ColorHSLA_get_lightness(color),
        Mul(a, clamp(f32_min(Sub(k, Three), Sub(Rat(9, 1), k)), Neg(One), One)))

helper_f(color, n) ==
    helper_f_of(color,
                rem_euclid(Add(n, Mul(ColorHSLA_get_hue(color), Rat(12, 1))), Rat(12, 1)),
                Mul(ColorHSLA_get_saturation(color),
                    f32_min(ColorHSLA_get_lightness(color),
                            Sub(One, ColorHSLA_get_lightness(color)))))

helper_hsl_to_rgb(color) ==
    ColorRGBA_new_unsafe(helper_f(color, Zero), helper_f(color, Rat(4, 1)),
                         helper_f(color, Rat(8, 1)), ColorHSLA_get_alpha(color))

\* ------------------------------------------------- n-dimensional colour
\* ColorND<N>::new: every entry clamped, collected, and converted back to
\* an array of N entries, which is expected to succeed.
ColorND_new_reversed(N, values) ==
    IF Cardinality(DOMAIN [k \in DOMAIN values |-> clamp(values[k], Zero, One)]) = N
    THEN [values |-> [k \in DOMAIN values |-> clamp(values[N - 1 - k], Zero, One)]]
    ELSE Panic
ColorND_new(N, values) ==
    IF Cardinality(DOMAIN [k \in DOMAIN values |-> clamp(values[k], Zero, One)]) = N
    THEN [values |-> [k \in DOMAIN values |-> clamp(values[k], Zero, One)]]
    ELSE Panic

ColorND_get(self) == self.values

\* ------------------------------------------------------ grayscale types
colors_Grays_new(v, a) == [v |-> clamp(v, Zero, One), a |-> clamp(a, Zero, One)]

colors_Grays_new_unsafe(v, a) == [v |-> v, a |-> a]

colors_Grays_get_rgba_red_only(self) == ColorRGBA_new_unsafe(self.v, Zero, Zero, self.a)
colors_Grays_get_rgba(self) == ColorRGBA_new_unsafe(self.v, self.v, self.v, self.a)

maps_Grays_new(a) == [a |-> clamp(a, Zero, One)]

maps_Grays_get_color(self, color) == colors_Grays_new_unsafe(ColorND_get(color)[0], self.a)

\* --------------------------------------------------- reference table
\* The literals of tests::get_test_values, row by row: <<n, d>> is the
\* decimal literal n / d, and <<n, d, 360>> the expression `n/d / 360.0`.
test_literals ==
    <<
    [hcm |-> <<<<0, 1>>, <<0, 1>>, <<1, 1>>, <<1, 1>>>>,
     rgb |-> <<<<1, 1>>, <<1, 1>>, <<1, 1>>>>,
     hsv |-> <<<<0, 1>>, <<0, 1>>, <<1, 1>>>>,
     hsl |-> <<<<0, 1>>, <<0, 1>>, <<1, 1>>>>,
     hsi |-> <<<<0, 1>>, <<0, 1>>, <<1, 1>>>>],
    [hcm |-> <<<<0, 1>>, <<0, 1>>, <<1, 2>>, <<1, 1>>>>,
     rgb |-> <<<<1, 2>>, <<1, 2>>, <<1, 2>>>>,
     hsv |-> <<<<0, 1>>, <<0, 1>>, <<1, 2>>>>,
     hsl |-> <<<<0, 1>>, <<0, 1>>, <<1, 2>>>>,
     hsi |-> <<<<0, 1>>, <<0, 1>>, <<1, 2>>>>],
    [hcm |-> <<<<0, 1>>, <<0, 1>>, <<0, 1>>, <<1, 1>>>>,
     rgb |-> <<<<0, 1>>, <<0, 1>>, <<0, 1>>>>,
     hsv |-> <<<<0, 1>>, <<0, 1>>, <<0, 1>>>>,
     hsl |-> <<<<0, 1>>, <<0, 1>>, <<0, 1>>>>,
     hsi |-> <<<<0, 1>>, <<0, 1>>, <<0, 1>>>>],
    [hcm |-> <<<<0, 1>>, <<1, 1>>, <<0, 1>>, <<1, 1>>>>,
     rgb |-> <<<<1, 1>>, <<0, 1>>, <<0, 1>>>>,
     hsv |-> <<<<0, 1>>, <<1, 1>>, <<1, 1>>>>,
     hsl |-> <<<<0, 1>>, <<1, 1>>, <<1, 2>>>>,
     hsi |-> <<<<0, 1>>, <<1, 1>>, <<3333, 10000>>>>],
    [hcm |-> <<<<60, 1, 360>>, <<3, 4>>, <<0, 1>>, <<1, 1>>>>,
     rgb |-> <<<<3, 4>>, <<3, 4>>, <<0, 1>>>>,
     hsv |-> <<<<60, 1, 360>>, <<1, 1>>, <<3, 4>>>>,
     hsl |-> <<<<60, 1, 360>>, <<1, 1>>, <<3, 8>>>>,
     hsi |-> <<<<60, 1, 360>>, <<1, 1>>, <<1, 2>>>>],
    [hcm |-> <<<<120, 1, 360>>, <<1, 2>>, <<0, 1>>, <<1, 1>>>>,
     rgb |-> <<<<0, 1>>, <<1, 2>>, <<0, 1>>>>,
     hsv |-> <<<<120, 1, 360>>, <<1, 1>>, <<1, 2>>>>,
     hsl |-> <<<<120, 1, 360>>, <<1, 1>>, <<1, 4>>>>,
     hsi |-> <<<<120, 1, 360>>, <<1, 1>>, <<1667, 10000>>>>],
    [hcm |-> <<<<180, 1, 360>>, <<1, 2>>, <<1, 2>>, <<1, 1>>>>,
     rgb |-> <<<<1, 2>>, <<1, 1>>, <<1, 1>>>>,
     hsv |-> <<<<180, 1, 360>>, <<1, 2>>, <<1, 1>>>>,
     hsl |-> <<<<180, 1, 360>>, <<1, 1>>, <<3, 4>>>>,
     hsi |-> <<<<180, 1, 360>>, <<2, 5>>, <<833, 1000>>>>],
    [hcm |-> <<<<240, 1, 360>>, <<1, 2>>, <<1, 2>>, <<1, 1>>>>,
     rgb |-> <<<<1, 2>>, <<1, 2>>, <<1, 1>>>>,
     hsv |-> <<<<240, 1, 360>>, <<1, 2>>, <<1, 1>>>>,
     hsl |-> <<<<240, 1, 360>>, <<1, 1>>, <<3, 4>>>>,
     hsi |-> <<<<240, 1, 360>>, <<1, 4>>, <<667, 1000>>>>],
    [hcm |-> <<<<300, 1, 360>>, <<1, 2>>, <<1, 4>>, <<1, 1>>>>,
     rgb |-> <<<<3, 4>>, <<1, 4>>, <<3, 4>>>>,
     hsv |-> <<<<300, 1, 360>>, <<667, 1000>>, <<3, 4>>>>,
     hsl |-> <<<<300, 1, 360>>, <<1, 2>>, <<1, 2>>>>,
     hsi |-> <<<<300, 1, 360>>, <<571, 1000>>, <<2917, 5000>>>>],
    [hcm |-> <<<<309, 5, 360>>, <<501, 1000>>, <<71, 500>>, <<1, 1>>>>,
     rgb |-> <<<<157, 250>>, <<643, 1000>>, <<71, 500>>>>,
     hsv |-> <<<<309, 5, 360>>, <<779, 1000>>, <<643, 1000>>>>,
     hsl |-> <<<<309, 5, 360>>, <<319, 500>>, <<981, 2500>>>>,
     hsi |-> <<<<309, 5, 360>>, <<699, 1000>>, <<471, 1000>>>>],
    [hcm |-> <<<<2511, 10, 360>>, <<407, 500>>, <<13, 125>>, <<1, 1>>>>,
     rgb |-> <<<<51, 200>>, <<13, 125>>, <<459, 500>>>>,
     hsv |-> <<<<2511, 10, 360>>, <<887, 1000>>, <<459, 500>>>>,
     hsl |-> <<<<2511, 10, 360>>, <<104, 125>>, <<511, 1000>>>>,
     hsi |-> <<<<2511, 10, 360>>, <<1511, 2000>>, <<851, 2000>>>>],
    [hcm |-> <<<<1349, 10, 360>>, <<559, 1000>>, <<29, 250>>, <<1, 1>>>>,
     rgb |-> <<<<29, 250>>, <<27, 40>>, <<51, 200>>>>,
     hsv |-> <<<<1349, 10, 360>>, <<207, 250>>, <<27, 40>>>>,
     hsl |-> <<<<1349, 10, 360>>, <<1413, 2000>>, <<791, 2000>>>>,
     hsi |-> <<<<1349, 10, 360>>, <<667, 1000>>, <<349, 1000>>>>],
    [hcm |-> <<<<99, 2, 360>>, <<111, 125>>, <<53, 1000>>, <<1, 1>>>>,
     rgb |-> <<<<1881, 2000>>, <<1571, 2000>>, <<53, 1000>>>>,
     hsv |-> <<<<99, 2, 360>>, <<118, 125>>, <<941, 1000>>>>,
     hsl |-> <<<<99, 2, 360>>, <<893, 1000>>, <<497, 1000>>>>,
     hsi |-> <<<<99, 2, 360>>, <<911, 1000>>, <<593, 1000>>>>],
    [hcm |-> <<<<2837, 10, 360>>, <<71, 100>>, <<187, 1000>>, <<1, 1>>>>,
     rgb |-> <<<<88, 125>>, <<187, 1000>>, <<897, 1000>>>>,
     hsv |-> <<<<2837, 10, 360>>, <<99, 125>>, <<897, 1000>>>>,
     hsl |-> <<<<2837, 10, 360>>, <<31, 40>>, <<271, 500>>>>,
     hsi |-> <<<<2837, 10, 360>>, <<343, 500>>, <<149, 250>>>>],
    [hcm |-> <<<<143, 10, 360>>, <<123, 200>>, <<79, 250>>, <<1, 1>>>>,
     rgb |-> <<<<931, 1000>>, <<463, 1000>>, <<79, 250>>>>,
     hsv |-> <<<<143, 10, 360>>, <<661, 1000>>, <<931, 1000>>>>,
     hsl |-> <<<<143, 10, 360>>, <<81749, 100000>>, <<6239, 10000>>>>,
     hsi |-> <<<<143, 10, 360>>, <<2227, 5000>>, <<57, 100>>>>],
    [hcm |-> <<<<569, 10, 360>>, <<233, 500>>, <<133, 250>>, <<1, 1>>>>,
     rgb |-> <<<<499, 500>>, <<487, 500>>, <<133, 250>>>>,
     hsv |-> <<<<569, 10, 360>>, <<467, 1000>>, <<499, 500>>>>,
     hsl |-> <<<<569, 10, 360>>, <<991, 1000>>, <<153, 200>>>>,
     hsi |-> <<<<569, 10, 360>>, <<29, 80>>, <<1669, 2000>>>>],
    [hcm |-> <<<<812, 5, 360>>, <<87, 125>>, <<99, 1000>>, <<1, 1>>>>,
     rgb |-> <<<<99, 1000>>, <<159, 200>>, <<591, 1000>>>>,
     hsv |-> <<<<812, 5, 360>>, <<7, 8>>, <<159, 200>>>>,
     hsl |-> <<<<812, 5, 360>>, <<779, 1000>>, <<447, 1000>>>>,
     hsi |-> <<<<812, 5, 360>>, <<4, 5>>, <<99, 200>>>>],
    [hcm |-> <<<<2483, 10, 360>>, <<56, 125>>, <<149, 1000>>, <<1, 1>>>>,
     rgb |-> <<<<211, 1000>>, <<149, 1000>>, <<597, 1000>>>>,
     hsv |-> <<<<2483, 10, 360>>, <<3, 4>>, <<597, 1000>>>>,
     hsl |-> <<<<2483, 10, 360>>, <<601, 1000>>, <<373, 1000>>>>,
     hsi |-> <<<<2483, 10, 360>>, <<533, 1000>>, <<319, 1000>>>>],
    [hcm |-> <<<<481, 2, 360>>, <<57, 250>>, <<493, 1000>>, <<1, 1>>>>,
     rgb |-> <<<<99, 200>>, <<493, 1000>>, <<721, 1000>>>>,
     hsv |-> <<<<481, 2, 360>>, <<79, 250>>, <<721, 1000>>>>,
     hsl |-> <<<<481, 2, 360>>, <<29, 100>>, <<607, 1000>>>>,
     hsi |-> <<<<481, 2, 360>>, <<269, 2000>>, <<1139, 2000>>>>]
    >>

\* A table entry evaluated in f32.
test_literal(e) ==
    IF Len(e) = 3 THEN Div(Lit(e[1], e[2]), Lit(e[3], 1)) ELSE Lit(e[1], e[2])

\* One row of the table, v holding its entries evaluated: the hub value is
\* written as a struct literal, the four colours go through their
\* three-component constructors.
test_row_of(v) ==
    [hcm |-> [h |-> v.hcm[1], c |-> v.hcm[2], m |-> v.hcm[3], a |-> v.hcm[4]],
     rgb |-> ColorRGBA_new_rgb(v.rgb[1], v.rgb[2], v.rgb[3]),
     hsv |-> ColorHSVA_new_hsv(v.hsv[1], v.hsv[2], v.hsv[3]),
     hsl |-> ColorHSLA_new_hsl(v.hsl[1], v.hsl[2], v.hsl[3]),
     hsi |-> ColorHSIA_new_hsi(v.hsi[1], v.hsi[2], v.hsi[3])]

test_row(row) ==
    test_row_of([f \in DOMAIN row |-> [j \in DOMAIN row[f] |-> test_literal(row[f][j])]])

\* tests::get_test_values: the rows (hcm, rgb, hsv, hsl, hsi).
get_test_values == [k \in DOMAIN test_literals |-> test_row(test_literals[k])]

\* tests::round_hcm .. round_hsi: every component times 1000, rounded.
round4(x1, x2, x3, x4) ==
    <<round(Mul(x1, Rat(1000, 1))), round(Mul(x2, Rat(1000, 1))),
      round(Mul(x3, Rat(1000, 1))), round(Mul(x4, Rat(1000, 1)))>>

round_hcm(color) == round4(color.h, color.c, color.m, color.a)

round_rgb(color) ==
    round4(ColorRGBA_get_red(color), ColorRGBA_get_green(color),
           ColorRGBA_get_blue(color), ColorRGBA_get_alpha(color))

round_hsv(color) ==
    round4(ColorHSVA_get_hue(color), ColorHSVA_get_saturation(color),
           ColorHSVA_get_value(color), ColorHSVA_get_alpha(color))

round_hsl(color) ==
    round4(ColorHSLA_get_hue(color), ColorHSLA_get_saturation(color),
           ColorHSLA_get_lightness(color), ColorHSLA_get_alpha(color))

round_hsi(color) ==
    round4(ColorHSIA_get_hue(color), ColorHSIA_get_saturation(color),
           ColorHSIA_get_intensity(color), ColorHSIA_get_alpha(color))

\* ------------------------------------------------------------ state
VARIABLES
    call,     \* the constructor call that built the colour: its name, type and arguments
    path,     \* the colour spaces the value has been in, the space it is in now last
    color,    \* the colour value now
    orig,     \* the colour value as constructed
    checked,  \* whether a validating constructor built it
    hub,      \* the ColorHCMA value of the last conversion
    locals,   \* the run of from_rgb in the last conversion from RGB
    read,     \* what the accessors returned when last called on the colour
    test_values,  \* the reference table a test has loaded
    test,     \* the last comparison a test of the reference table made
    nd,       \* the ColorND value, the array it was built from, what get returned
    map,      \* the maps::Grays value and the alpha it was built from
    gray,     \* the colors::Grays value, the call that returned it and its arguments
    rgba,     \* what get_rgba returned for the colors::Grays value
    direct    \* what the direct hsl_to_rgb of helper.rs returned for the colour

vars == <<call, path, color, orig, checked, hub, locals, read, test_values, test,
          nd, map, gray, rgba, direct>>

\* The values of the grayscale types and of ColorND.
grays == <<nd, map, gray, rgba>>

NoCall == [fn |-> "none"]
None == [none |-> TRUE]
NoTest == [name |-> "none"]

\* The space the colour is in now.
Space == IF path = <<>> THEN "none" ELSE path[Len(path)]

\* ----------------------------------------------------------- inputs
CompIn == {Rat(k, Den) : k \in -1..(Den + 1)}
\* A binary32 hue just below zero: -2^-27.
TinyHue == Neg(Lit(1, 2^27))
\* A binary32 blue channel just above zero: 2^-30.
TinyBlue == Lit(1, 2^30)
\* A binary32 red channel: the literal 0.2.
FifthRed == Lit(1, 5)
\* A binary32 lightness next below 1, 1 - 2^-24, and the saturation 0.5.
NearWhite == Sub(One, Lit(1, 2^24))
HueIn == {Rat(k, HueDen) : k \in -(HueDen \div 4)..(HueDen + (HueDen \div 4))} \cup {TinyHue}
AlphaIn == {Rat(k, AlphaDen) : k \in {-1, 1, AlphaDen, AlphaDen + 1}}
\* Arguments of the unchecked constructors: below, inside and above [0, 1].
UnsafeIn == {Rat(-1, Den), Rat(1, Den), Rat(Den + 1, Den)}
\* Entries of the arrays given to ColorND::new: outside, on the ends of and
\* inside [0, 1].
NdIn == UnsafeIn \cup {Zero, One}

Init ==
    /\ call = NoCall
    /\ path = <<>>
    /\ color = None
    /\ orig = None
    /\ checked = FALSE
    /\ hub = None
    /\ locals = None
    /\ read = None
    /\ test_values = <<>>
    /\ test = NoTest
    /\ nd = None
    /\ map = None
    /\ gray = None
    /\ rgba = None
    /\ direct = None

\* --------------------------------------------------------- constructors
\* A constructor of type ty, called with args, returned value.
Construct(fn, ty, args, value, validating) ==
    /\ grays = <<None, None, None, None>>
    /\ call' = [fn |-> fn, ty |-> ty, args |-> args]
    /\ path' = <<ty>>
    /\ color' = value
    /\ orig' = value
    /\ checked' = validating
    /\ UNCHANGED <<hub, locals, read, test_values, test, grays, direct>>

ColorRGBA_new_call ==
    /\ path = <<>> /\ test_values = <<>>
    /\ \E r \in CompIn \cup {FifthRed}, g \in CompIn, b \in CompIn \cup {TinyBlue}, a \in AlphaIn :
        Construct("new", "RGB", <<r, g, b, a>>, ColorRGBA_new(r, g, b, a), TRUE)

ColorRGBA_new_rgb_call ==
    /\ path = <<>> /\ test_values = <<>>
    /\ \E r \in CompIn, g \in CompIn, b \in CompIn :
        Construct("new3", "RGB", <<r, g, b>>, ColorRGBA_new_rgb(r, g, b), TRUE)

ColorRGBA_new_unsafe_call ==
    /\ path = <<>> /\ test_values = <<>>
    /\ \E r \in UnsafeIn, g \in UnsafeIn, b \in UnsafeIn, a \in UnsafeIn :
        Construct("new_unsafe", "RGB", <<r, g, b, a>>, ColorRGBA_new_unsafe(r, g, b, a), FALSE)

ColorHSLA_new_call ==
    /\ path = <<>> /\ test_values = <<>>
    /\ \E h \in HueIn, s \in CompIn, l \in CompIn, a \in AlphaIn :
        Construct("new", "HSL", <<h, s, l, a>>, ColorHSLA_new(h, s, l, a), TRUE)

ColorHSLA_new_hsl_call ==
    /\ path = <<>> /\ test_values = <<>>
    /\ \E h \in HueIn, s \in CompIn, l \in CompIn :
        Construct("new3", "HSL", <<h, s, l>>, ColorHSLA_new_hsl(h, s, l), TRUE)

ColorHSLA_new_unsafe_call ==
    /\ path = <<>> /\ test_values = <<>>
    /\ \E h \in UnsafeIn, s \in UnsafeIn \cup {Half}, l \in UnsafeIn \cup {NearWhite}, a \in UnsafeIn :
        Construct("new_unsafe", "HSL", <<h, s, l, a>>, ColorHSLA_new_unsafe(h, s, l, a), FALSE)

ColorHSVA_new_call ==
    /\ path = <<>> /\ test_values = <<>>
    /\ \E h \in HueIn, s \in CompIn, v \in CompIn, a \in AlphaIn :
        Construct("new", "HSV", <<h, s, v, a>>, ColorHSVA_new(h, s, v, a), TRUE)

ColorHSVA_new_hsv_call ==
    /\ path = <<>> /\ test_values = <<>>
    /\ \E h \in HueIn, s \in CompIn, v \in CompIn :
        Construct("new3", "HSV", <<h, s, v>>, ColorHSVA_new_hsv(h, s, v), TRUE)

ColorHSVA_new_unsafe_call ==
    /\ path = <<>> /\ test_values = <<>>
    /\ \E h \in UnsafeIn, s \in UnsafeIn, v \in UnsafeIn, a \in UnsafeIn :
        Construct("new_unsafe", "HSV", <<h, s, v, a>>, ColorHSVA_new_unsafe(h, s, v, a), FALSE)

ColorHSIA_new_call ==
    /\ path = <<>> /\ test_values = <<>>
    /\ \E h \in HueIn, s \in CompIn, i \in CompIn, a \in AlphaIn :
        Construct("new", "HSI", <<h, s, i, a>>, ColorHSIA_new(h, s, i, a), TRUE)

ColorHSIA_new_hsi_call ==
    /\ path = <<>> /\ test_values = <<>>
    /\ \E h \in HueIn, s \in CompIn, i \in CompIn :
        Construct("new3", "HSI", <<h, s, i>>, ColorHSIA_new_hsi(h, s, i), TRUE)

ColorHSIA_new_unsafe_call ==
    /\ path = <<>> /\ test_values = <<>>
    /\ \E h \in UnsafeIn, s \in UnsafeIn, i \in UnsafeIn, a \in UnsafeIn :
        Construct("new_unsafe", "HSI", <<h, s, i, a>>, ColorHSIA_new_unsafe(h, s, i, a), FALSE)

\* ------------------------------------------------------------ accessors
\* The bulk accessor and the four per-component accessors, called on the colour.
Read(ty, all, each) ==
    /\ Space = ty
    /\ read = None
    /\ read' = [get |-> all, each |-> each]
    /\ UNCHANGED <<call, path, color, orig, checked, hub, locals, test_values, test, grays, direct>>

ColorRGBA_get_call ==
    Read("RGB", ColorRGBA_get(color),
         <<ColorRGBA_get_red(color), ColorRGBA_get_green(color),
           ColorRGBA_get_blue(color), ColorRGBA_get_alpha(color)>>)

ColorHSLA_get_call ==
    Read("HSL", ColorHSLA_get(color),
         <<ColorHSLA_get_hue(color), ColorHSLA_get_saturation(color),
           ColorHSLA_get_lightness(color), ColorHSLA_get_alpha(color)>>)

ColorHSVA_get_call ==
    Read("HSV", ColorHSVA_get(color),
         <<ColorHSVA_get_hue(color), ColorHSVA_get_saturation(color),
           ColorHSVA_get_value(color), ColorHSVA_get_alpha(color)>>)

ColorHSIA_get_call ==
    Read("HSI", ColorHSIA_get(color),
         <<ColorHSIA_get_hue(color), ColorHSIA_get_saturation(color),
           ColorHSIA_get_intensity(color), ColorHSIA_get_alpha(color)>>)

\* The values go out of scope.
Drop ==
    /\ ~(path = <<>> /\ grays = <<None, None, None, None>>)
    /\ call' = NoCall
    /\ path' = <<>>
    /\ color' = None
    /\ orig' = None
    /\ checked' = FALSE
    /\ hub' = None
    /\ locals' = None
    /\ read' = None
    /\ nd' = None
    /\ map' = None
    /\ gray' = None
    /\ rgba' = None
    /\ direct' = None
    /\ UNCHANGED <<test_values, test>>

\* ---------------------------------------------------------- conversions
\* A conversion from space a to space b: h is the hub value, result the
\* colour returned, loc the run of from_rgb when a is RGB.
Convert_returning_cached(a, b, h, result, loc) ==
    /\ Space = a
    /\ Len(path) <= MaxConv
    /\ hub' = h
    /\ locals' = loc
    /\ color' = IF Len(path) = 2 /\ path[1] = b THEN orig ELSE result
    /\ path' = Append(path, IF IsPanic(result) THEN "panic" ELSE b)
    /\ call' = NoCall
    /\ read' = None
    /\ direct' = None
    /\ UNCHANGED <<orig, checked, test_values, test, grays>>
Convert(a, b, h, result, loc) ==
    /\ Space = a
    /\ Len(path) <= MaxConv
    /\ hub' = h
    /\ locals' = loc
    /\ color' = result
    /\ path' = Append(path, IF IsPanic(result) THEN "panic" ELSE b)
    /\ call' = NoCall
    /\ read' = None
    /\ direct' = None
    /\ UNCHANGED <<orig, checked, test_values, test, grays>>

rgb_to_hsv_call == Convert("RGB", "HSV", from_rgb(color), rgb_to_hsv(color), from_rgb_run(color))
rgb_to_hsl_call == Convert("RGB", "HSL", from_rgb(color), rgb_to_hsl(color), from_rgb_run(color))
rgb_to_hsi_call == Convert("RGB", "HSI", from_rgb(color), rgb_to_hsi(color), from_rgb_run(color))
hsv_to_hsl_call == Convert("HSV", "HSL", from_hsv(color), hsv_to_hsl(color), None)
hsv_to_hsi_call == Convert("HSV", "HSI", from_hsv(color), hsv_to_hsi(color), None)
hsv_to_rgb_call == Convert("HSV", "RGB", from_hsv(color), hsv_to_rgb(color), None)
hsl_to_hsi_call == Convert("HSL", "HSI", from_hsl(color), hsl_to_hsi(color), None)
hsl_to_rgb_call == Convert("HSL", "RGB", from_hsl(color), hsl_to_rgb(color), None)
hsl_to_hsv_call == Convert("HSL", "HSV", from_hsl(color), hsl_to_hsv(color), None)
hsi_to_rgb_call == Convert("HSI", "RGB", from_hsi(color), hsi_to_rgb(color), None)
hsi_to_hsv_call == Convert("HSI", "HSV", from_hsi(color), hsi_to_hsv(color), None)
hsi_to_hsl_call == Convert("HSI", "HSL", from_hsi(color), hsi_to_hsl(color), None)

\* -------------------------------------------------- reference-table tests
\* The first statement of every test of tests::conversion: the table is
\* loaded.
get_test_values_call ==
    /\ path = <<>>
    /\ grays = <<None, None, None, None>>
    /\ test_values = <<>>
    /\ test_values' = get_test_values
    /\ UNCHANGED <<call, path, color, orig, checked, hub, locals, read, test, grays, direct>>

\* One iteration of the loop of a test: row k of the table, what the
\* function returned and what the row holds, both rounded.
RunTest(name, k, got, want) ==
    /\ test' = [name |-> name, row |-> k, got |-> got, want |-> want]
    /\ UNCHANGED <<call, path, color, orig, checked, hub, locals, read, test_values, grays, direct>>

test_from_rgb ==
    \E k \in DOMAIN test_values :
        RunTest("from_rgb", k, round_hcm(from_rgb(test_values[k].rgb)),
                round_hcm(test_values[k].hcm))

test_from_hsv ==
    \E k \in DOMAIN test_values :
        RunTest("from_hsv", k, round_hcm(from_hsv(test_values[k].hsv)),
                round_hcm(test_values[k].hcm))

test_from_hsl ==
    \E k \in DOMAIN test_values :
        RunTest("from_hsl", k, round_hcm(from_hsl(test_values[k].hsl)),
                round_hcm(test_values[k].hcm))

test_from_hsi ==
    \E k \in DOMAIN test_values :
        RunTest("from_hsi", k, round_hcm(from_hsi(test_values[k].hsi)),
                round_hcm(test_values[k].hcm))

test_to_rgb ==
    \E k \in DOMAIN test_values :
        RunTest("to_rgb", k, round_rgb(to_rgb(test_values[k].hcm)),
                round_rgb(test_values[k].rgb))

test_to_hsv ==
    \E k \in DOMAIN test_values :
        RunTest("to_hsv", k, round_hsv(to_hsv(test_values[k].hcm)),
                round_hsv(test_values[k].hsv))

test_to_hsl ==
    \E k \in DOMAIN test_values :
        RunTest("to_hsl", k, round_hsl(to_hsl(test_values[k].hcm)),
                round_hsl(test_values[k].hsl))

test_to_hsi ==
    \E k \in DOMAIN test_values :
        RunTest("to_hsi", k, round_hsi(to_hsi(test_values[k].hcm)),
                round_hsi(test_values[k].hsi))

\* A test returns.
test_return ==
    /\ test_values # <<>>
    /\ test_values' = <<>>
    /\ test' = NoTest
    /\ UNCHANGED <<call, path, color, orig, checked, hub, locals, read, grays, direct>>

\* ------------------------------------------------------ grayscale calls
\* The colour value types are not in use while these are.
colours == <<call, path, color, orig, checked, hub, locals, read, test_values, test, direct>>

ColorND_new_call ==
    /\ path = <<>> /\ test_values = <<>>
    /\ nd = None /\ gray = None
    /\ \E N \in 1..MaxN : \E values \in [0..(N - 1) -> NdIn] :
        nd' = [N |-> N, of |-> values, self |-> ColorND_new(N, values), got |-> None]
    /\ UNCHANGED <<colours, map, gray, rgba>>

ColorND_get_call ==
    /\ nd # None /\ ~IsPanic(nd.self) /\ nd.got = None
    /\ nd' = [nd EXCEPT !.got = [get |-> ColorND_get(nd.self)]]
    /\ UNCHANGED <<colours, map, gray, rgba>>

colors_Grays_new_call ==
    /\ path = <<>> /\ test_values = <<>>
    /\ grays = <<None, None, None, None>>
    /\ \E v \in CompIn, a \in AlphaIn :
        gray' = [fn |-> "new", of |-> <<v, a>>, self |-> colors_Grays_new(v, a)]
    /\ UNCHANGED <<colours, nd, map, rgba>>

maps_Grays_new_call ==
    /\ path = <<>> /\ test_values = <<>>
    /\ map = None /\ gray = None
    /\ \E a \in AlphaIn : map' = [of |-> a, self |-> maps_Grays_new(a)]
    /\ UNCHANGED <<colours, nd, gray, rgba>>

\* get_color of the ColorMap<1> of maps::Grays, on a ColorND<1>.
maps_Grays_get_color_call ==
    /\ map # None /\ nd # None /\ nd.N = 1 /\ ~IsPanic(nd.self)
    /\ gray = None
    /\ gray' = [fn |-> "get_color", of |-> <<nd.of[0], map.of>>,
                self |-> maps_Grays_get_color(map.self, nd.self)]
    /\ UNCHANGED <<colours, nd, map, rgba>>

colors_Grays_get_rgba_call ==
    /\ gray # None /\ rgba = None
    /\ rgba' = colors_Grays_get_rgba(gray.self)
    /\ UNCHANGED <<colours, nd, map, gray>>

\* The direct hsl_to_rgb of helper.rs, called on the HSL colour as constructed.
helper_hsl_to_rgb_call ==
    /\ path = <<"HSL">>
    /\ direct = None
    /\ direct' = [of |-> color, rgb |-> helper_hsl_to_rgb(color)]
    /\ UNCHANGED <<call, path, color, orig, checked, hub, locals, read, test_values, test, grays>>

\* ------------------------------------------------------- specification
Next ==
    \/ ColorRGBA_new_call
    \/ ColorRGBA_new_rgb_call
    \/ ColorRGBA_new_unsafe_call
    \/ ColorHSLA_new_call
    \/ ColorHSLA_new_hsl_call
    \/ ColorHSLA_new_unsafe_call
    \/ ColorHSVA_new_call
    \/ ColorHSVA_new_hsv_call
    \/ ColorHSVA_new_unsafe_call
    \/ ColorHSIA_new_call
    \/ ColorHSIA_new_hsi_call
    \/ ColorHSIA_new_unsafe_call
    \/ ColorRGBA_get_call
    \/ ColorHSLA_get_call
    \/ ColorHSVA_get_call
    \/ ColorHSIA_get_call
    \/ Drop
    \/ rgb_to_hsv_call
    \/ rgb_to_hsl_call
    \/ rgb_to_hsi_call
    \/ hsv_to_hsl_call
    \/ hsv_to_hsi_call
    \/ hsv_to_rgb_call
    \/ hsl_to_hsi_call
    \/ hsl_to_rgb_call
    \/ hsl_to_hsv_call
    \/ hsi_to_rgb_call
    \/ hsi_to_hsv_call
    \/ hsi_to_hsl_call
    \/ get_test_values_call
    \/ test_from_rgb
    \/ test_from_hsv
    \/ test_from_hsl
    \/ test_from_hsi
    \/ test_to_rgb
    \/ test_to_hsv
    \/ test_to_hsl
    \/ test_to_hsi
    \/ test_return
    \/ ColorND_new_call
    \/ ColorND_get_call
    \/ colors_Grays_new_call
    \/ maps_Grays_new_call
    \/ maps_Grays_get_color_call
    \/ colors_Grays_get_rgba_call
    \/ helper_hsl_to_rgb_call

Spec == Init /\ [][Next]_vars

\* ------------------------------------------------------------ properties
\* The four components of a colour of space ty, in the canonical order.
Components(ty, c) ==
    CASE ty = "RGB" -> <<c.r, c.g, c.b, c.a>>
      [] ty = "HSL" -> <<c.h, c.s, c.l, c.a>>
      [] ty = "HSV" -> <<c.h, c.s, c.v, c.a>>
      [] ty = "HSI" -> <<c.h, c.s, c.i, c.a>>

\* The places of the components that are not a hue.
NonHue(ty) == IF ty = "RGB" THEN 1..4 ELSE 2..4

InUnit(x) == Le(Zero, x) /\ Le(x, One)

IsInteger(x) == Eq(x, Rat(Trunc(x), 1))

\* The four-argument validating constructor of space ty.
Validated(ty, x1, x2, x3, x4) ==
    CASE ty = "RGB" -> ColorRGBA_new(x1, x2, x3, x4)
      [] ty = "HSL" -> ColorHSLA_new(x1, x2, x3, x4)
      [] ty = "HSV" -> ColorHSVA_new(x1, x2, x3, x4)
      [] ty = "HSI" -> ColorHSIA_new(x1, x2, x3, x4)

\* C1: a validating constructor stores every non-hue argument below 0 as 0,
\* above 1 as 1 and in [0, 1] unchanged, whatever the other arguments are,
\* and rejects no input.
C1_ClampsEachComponent ==
    call.fn = "new" =>
        /\ ~IsPanic(color)
        /\ \A k \in NonHue(call.ty) :
            /\ Lt(call.args[k], Zero) => Components(call.ty, color)[k] = Zero
            /\ Lt(One, call.args[k]) => Components(call.ty, color)[k] = One
            /\ InUnit(call.args[k]) => Components(call.ty, color)[k] = call.args[k]

C1_Witness ==
    /\ call.fn = "new" /\ call.ty = "RGB"
    /\ call.args = <<Rat(-1, Den), Rat(1, Den), Rat(Den + 1, Den), Rat(AlphaDen + 1, AlphaDen)>>
    /\ Components("RGB", color) = <<Zero, Rat(1, Den), One, One>>

\* C2: the validating constructors of HSL, HSV and HSI store, for every hue
\* argument h, a hue in [0, 1) that differs from h by an integer.
C2_HueWrapped ==
    (call.fn = "new" /\ call.ty # "RGB") =>
        /\ Le(Zero, color.h)
        /\ Lt(color.h, One)
        /\ IsInteger(Sub(call.args[1], color.h))

\* C3: a three-argument constructor returns what the four-argument validating
\* constructor returns with alpha 1, so the stored alpha is exactly 1.
C3_DefaultsAlphaToOne ==
    call.fn = "new3" =>
        /\ color = Validated(call.ty, call.args[1], call.args[2], call.args[3], One)
        /\ Components(call.ty, color)[4] = One

C3_Witness ==
    /\ call.fn = "new3" /\ call.ty = "HSL"
    /\ call.args = <<Rat(HueDen + (HueDen \div 4), HueDen), Rat(-1, Den), Rat(Den + 1, Den)>>
    /\ Components("HSL", color) = <<Rat(HueDen \div 4, HueDen), Zero, One, One>>

\* C4: get() on a colour built by new_unsafe returns the four arguments as
\* given, in the canonical order, and each per-component accessor returns the
\* matching entry of get().
C4_UnsafeStoredVerbatim ==
    (call.fn = "new_unsafe" /\ read # None) =>
        /\ read.get = call.args
        /\ \A k \in 1..4 : read.each[k] = read.get[k]

C4_Witness ==
    /\ call.fn = "new_unsafe" /\ call.ty = "HSI" /\ read # None
    /\ read.get = <<Rat(Den + 1, Den), Rat(-1, Den), Rat(1, Den), Rat(Den + 1, Den)>>
    /\ read.each = read.get

\* Two colours of space ty agree within 0.001 in every component.
Within(ty, x, y) ==
    \A k \in 1..4 :
        Le(Abs(Sub(Components(ty, x)[k], Components(ty, y)[k])), Rat(1, 1000))

\* A colour whose hue carries information: nonzero chroma.
Chromatic(ty, c) ==
    CASE ty = "RGB" -> TRUE
      [] ty = "HSV" -> Lt(Zero, c.s) /\ Lt(Zero, c.v)
      [] ty = "HSL" -> Lt(Zero, c.s) /\ Lt(Zero, c.l) /\ Lt(c.l, One)
      [] ty = "HSI" -> Lt(Zero, c.s) /\ Lt(Zero, c.i)

\* The colour was built by a validating constructor, converted to another
\* space and converted back.
RoundTrip == checked /\ Len(path) = 3 /\ path[1] = path[3]

C6_GrayHasNoSaturation ==
    (/\ Len(path) = 2
     /\ path[1] = "RGB"
     /\ path[2] \in {"HSV", "HSL", "HSI"}
     /\ orig.r = orig.g /\ orig.g = orig.b
     /\ InUnit(orig.r))
        => /\ Components(path[2], color)[2] = Zero
           /\ Components(path[2], color)[3] = orig.r
           /\ Components(path[2], color)[4] = orig.a

C6_Witness ==
    /\ path = <<"RGB", "HSV">>
    /\ Components("RGB", orig) = <<Zero, Zero, Zero, Rat(1, AlphaDen)>>
    /\ Components("HSV", color) = <<Zero, Zero, Zero, Rat(1, AlphaDen)>>

\* The last conversion started from RGB, and its three channels are equal.
FromGray ==
    /\ locals # None
    /\ Eq(locals.locals.colors[0], locals.locals.colors[1])
    /\ Eq(locals.locals.colors[1], locals.locals.colors[2])

\* C7: from_rgb of a colour with r = g = b returns hue 0, chroma 0 and m the
\* common channel value, and does not evaluate x / c.
C7_GrayHub ==
    FromGray =>
        /\ hub.h = Zero
        /\ hub.c = Zero
        /\ Eq(hub.m, locals.locals.colors[0])
        /\ ~locals.divides

C7_Witness ==
    /\ path = <<"RGB", "HSL">>
    /\ Components("RGB", orig) = <<Rat(1, Den), Rat(1, Den), Rat(1, Den), One>>
    /\ hub = [h |-> Zero, c |-> Zero, m |-> Rat(1, Den), a |-> One]
    /\ ~locals.divides

\* C8: a conversion of a colour built by a validating constructor returns a
\* hue in [0, 1) and every other component in [0, 1].
C8_ConvertedInRange ==
    (checked /\ Len(path) = 2) =>
        /\ ~IsPanic(color)
        /\ path[2] # "RGB" => (Le(Zero, color.h) /\ Lt(color.h, One))
        /\ \A k \in NonHue(path[2]) : InUnit(Components(path[2], color)[k])

\* The examples of the reference table, through the conversions.
C9_Examples ==
    /\ round_hsv(rgb_to_hsv(ColorRGBA_new(Lit(1, 1), Lit(0, 1), Lit(0, 1), Lit(1, 1))))
           = <<0, 1000, 1000, 1000>>
    /\ round_hsl(rgb_to_hsl(ColorRGBA_new(Lit(1, 1), Lit(0, 1), Lit(0, 1), Lit(1, 1))))
           = <<0, 1000, 500, 1000>>
    /\ round_hsi(rgb_to_hsi(ColorRGBA_new(Lit(1, 1), Lit(0, 1), Lit(0, 1), Lit(1, 1))))
           = <<0, 1000, 333, 1000>>
    /\ round_hsl(rgb_to_hsl(ColorRGBA_new(Lit(0, 1), Lit(1, 2), Lit(0, 1), Lit(1, 1))))
           = <<333, 1000, 250, 1000>>
    /\ round_hsv(rgb_to_hsv(ColorRGBA_new(Lit(1, 2), Lit(1, 1), Lit(1, 1), Lit(1, 1))))
           = <<500, 500, 1000, 1000>>
    /\ round_hsi(rgb_to_hsi(ColorRGBA_new(Lit(1, 2), Lit(1, 1), Lit(1, 1), Lit(1, 1))))
           = <<500, 400, 833, 1000>>

\* C9: in every row of the reference table each encoder maps the row's
\* colour to the row's hub value and each decoder maps the hub value to the
\* row's colour, every component compared after rounding to 1/1000; so do
\* the examples the table gives for red, dark green and light cyan.
C9_TableAgrees ==
    test # NoTest =>
        /\ test.got = test.want
        /\ C9_Examples

C9_Witness ==
    /\ test.name = "to_hsl"
    /\ test.row = 10
    /\ test.got = <<172, 638, 392, 1000>>
    /\ test.want = test.got

Lowest(S) == CHOOSE k \in S : \A j \in S : k <= j

Highest(S) == CHOOSE k \in S : \A j \in S : k >= j

\* The places of the largest and of the smallest channels.
MaxPlaces(colors) ==
    {k \in 0..2 : \A j \in 0..2 : Le(colors[j], colors[k])}

MinPlaces(colors) ==
    {k \in 0..2 : \A j \in 0..2 : Le(colors[k], colors[j])}

\* C10 as stated: when channels tie for the largest, i_max is the lowest of
\* their places, and when channels tie for the smallest, i_min is the lowest
\* of their places.
C10_LowerIndexWins ==
    locals # None =>
        /\ Cardinality(MaxPlaces(locals.locals.colors)) > 1
               => locals.locals.i_max = Lowest(MaxPlaces(locals.locals.colors))
        /\ Cardinality(MinPlaces(locals.locals.colors)) > 1
               => locals.locals.i_min = Lowest(MinPlaces(locals.locals.colors))

\* C10, amended: when channels tie for the largest, i_max is the lowest of
\* their places; when channels tie for the smallest, i_min is the highest of
\* their places.
C10_TieBreak ==
    locals # None =>
        /\ Cardinality(MaxPlaces(locals.locals.colors)) > 1
               => locals.locals.i_max = Lowest(MaxPlaces(locals.locals.colors))
        /\ Cardinality(MinPlaces(locals.locals.colors)) > 1
               => locals.locals.i_min = Highest(MinPlaces(locals.locals.colors))

C10_Witness ==
    /\ path = <<"RGB", "HSV">>
    /\ Components("RGB", orig) = <<Rat(1, Den), Rat(1, Den), One, One>>
    /\ locals.locals.i_min = 1
    /\ locals.locals.i_max = 2

\* The three channels of an RGB colour are in [0, 1].
InGamut(x) == InUnit(x.r) /\ InUnit(x.g) /\ InUnit(x.b)

\* The four components of two RGB colours are the same numbers.
SameRGBA(x, y) == \A k \in 1..4 : Eq(Components("RGB", x)[k], Components("RGB", y)[k])

\* The last conversion encoded the constructed RGB colour, in range, into hub.
EncodedRGB == Len(path) = 2 /\ path[1] = "RGB" /\ InGamut(orig)

\* The test of from_rgb has encoded a row of the reference table.
EncodedRow == test # NoTest /\ test.name = "from_rgb"

\* C11 as stated: to_rgb(from_rgb(x)) is x, in all four components, for
\* every RGB colour x with channels in [0, 1].
C11_ExactInverse ==
    /\ EncodedRGB => (~IsPanic(to_rgb(hub)) /\ SameRGBA(to_rgb(hub), orig))
    /\ EncodedRow =>
           SameRGBA(to_rgb(from_rgb(test_values[test.row].rgb)), test_values[test.row].rgb)

\* C11, amended: to_rgb(from_rgb(x)) agrees with x within 0.001 in all four
\* components for every RGB colour x with channels in [0, 1], and is x itself
\* where the arithmetic is exact, in every sector, with two channels equal
\* and for grays.
C11_InverseWithinRounding ==
    /\ EncodedRGB =>
           /\ ~IsPanic(to_rgb(hub))
           /\ Within("RGB", to_rgb(hub), orig)
           /\ (\A k \in 1..4 : ~IsF32(Components("RGB", orig)[k])) => SameRGBA(to_rgb(hub), orig)
    /\ EncodedRow =>
           Within("RGB", to_rgb(from_rgb(test_values[test.row].rgb)),
                  test_values[test.row].rgb)

C11_Witness ==
    /\ EncodedRGB
    /\ Components("RGB", orig) = <<Rat(1, Den), One, One, Rat(1, AlphaDen)>>
    /\ hub.h = Half
    /\ to_rgb(hub) = orig

\* Steps e below hue 1: a whole sector, a step of the hue grid inside the
\* last sector, and the step from 1 to the binary32 value next below it.
WrapSteps == {Rat(1, 6), Rat(1, 6 * HueDen), Lit(1, 2^24)}

\* A colour built by a validating constructor has been encoded into hub.
Encoded == checked /\ Len(path) = 2 /\ hub # None

\* The hub value of the last conversion, decoded at hue h.
DecodedAt(h) == to_rgb([hub EXCEPT !.h = h])

\* What the decoder is to return e below the wrap point.
BelowWrap(e) ==
    ColorRGBA_new_unsafe(Add(hub.m, hub.c), hub.m,
                         Add(hub.m, Mul(Mul(Six, e), hub.c)), hub.a)

\* Red, green and alpha are the same numbers, blue is within tol.
SameButBlue(x, y, tol) ==
    /\ ~IsPanic(x)
    /\ Eq(x.r, y.r) /\ Eq(x.g, y.g) /\ Eq(x.a, y.a)
    /\ Le(Abs(Sub(x.b, y.b)), tol)

\* C12 as stated: for every hub value and every e in (0, 1/6], to_rgb at
\* hue 1 - e returns exactly (m + c, m, m + 6 e c), and at hue 0 it returns
\* (m + c, m, m); the hub values are those of the validated colours.
C12_ExactStep ==
    Encoded =>
        /\ SameButBlue(DecodedAt(Zero), BelowWrap(Zero), Zero)
        /\ \A e \in WrapSteps : SameButBlue(DecodedAt(Sub(One, e)), BelowWrap(e), Zero)

\* C12, amended: for the hub value of every validated colour and every e in
\* (0, 1/6], to_rgb at hue 1 - e returns red m + c, green m and a blue within
\* 0.00001 of m + 6 e c (m + 6 e c itself where the arithmetic is exact), and
\* at hue 0 it returns (m + c, m, m).
C12_NoSeam ==
    Encoded =>
        /\ SameButBlue(DecodedAt(Zero), BelowWrap(Zero), Zero)
        /\ \A e \in WrapSteps :
            /\ SameButBlue(DecodedAt(Sub(One, e)), BelowWrap(e), Rat(1, 100000))
            /\ ~IsF32(e) => SameButBlue(DecodedAt(Sub(One, e)), BelowWrap(e), Zero)

C12_Witness ==
    /\ path = <<"HSV", "RGB">>
    /\ Components("HSV", orig) = <<Rat(HueDen - 1, HueDen), One, One, One>>
    /\ hub = [h |-> Rat(HueDen - 1, HueDen), c |-> One, m |-> Zero, a |-> One]
    /\ color = BelowWrap(Rat(1, HueDen))
    /\ DecodedAt(Zero) = ColorRGBA_new_unsafe(One, Zero, Zero, One)

Spaces == {"RGB", "HSV", "HSL", "HSI"}

\* The hub encoder of space a and the hub decoder of space b; a decoder that
\* has panicked is the one of RGB.
Encode(a, x) ==
    CASE a = "RGB" -> from_rgb(x)
      [] a = "HSV" -> from_hsv(x)
      [] a = "HSL" -> from_hsl(x)
      [] a = "HSI" -> from_hsi(x)

Decode(b, h) ==
    CASE b \in {"RGB", "panic"} -> to_rgb(h)
      [] b = "HSV" -> to_hsv(h)
      [] b = "HSL" -> to_hsl(h)
      [] b = "HSI" -> to_hsi(h)

Constructed(c) ==
    CASE c.fn = "new" -> Validated(c.ty, c.args[1], c.args[2], c.args[3], c.args[4])
      [] c.fn = "new3" /\ c.ty = "RGB" -> ColorRGBA_new_rgb(c.args[1], c.args[2], c.args[3])
      [] c.fn = "new3" /\ c.ty = "HSL" -> ColorHSLA_new_hsl(c.args[1], c.args[2], c.args[3])
      [] c.fn = "new3" /\ c.ty = "HSV" -> ColorHSVA_new_hsv(c.args[1], c.args[2], c.args[3])
      [] c.fn = "new3" /\ c.ty = "HSI" -> ColorHSIA_new_hsi(c.args[1], c.args[2], c.args[3])
      [] c.fn = "new_unsafe" /\ c.ty = "RGB" ->
             ColorRGBA_new_unsafe(c.args[1], c.args[2], c.args[3], c.args[4])
      [] c.fn = "new_unsafe" /\ c.ty = "HSL" ->
             ColorHSLA_new_unsafe(c.args[1], c.args[2], c.args[3], c.args[4])
      [] c.fn = "new_unsafe" /\ c.ty = "HSV" ->
             ColorHSVA_new_unsafe(c.args[1], c.args[2], c.args[3], c.args[4])
      [] c.fn = "new_unsafe" /\ c.ty = "HSI" ->
             ColorHSIA_new_unsafe(c.args[1], c.args[2], c.args[3], c.args[4])

\* A step is a constructor call, a conversion call, an accessor call.
IsConstruction == path = <<>> /\ path' # <<>>

IsConversion == path # <<>> /\ Len(path') = Len(path) + 1

IsRead == read = None /\ read' # None

\* A call returns what its arguments alone determine, whatever was called
\* before, and leaves the existing values as they are.
PureStep ==
    /\ IsConstruction => color' = Constructed(call')
    /\ IsConversion =>
        /\ hub' = Encode(Space, color)
        /\ color' = Decode(path'[Len(path')], Encode(Space, color))
        /\ orig' = orig
    /\ IsRead => (color' = color /\ orig' = orig)

RedPlace == as_usize(div_euclid(Mul(hub.h, Six), Two))

\* The divisor 1 + z of from_hsi for the colour x.
HsiDivisor(x) ==
    Add(One, Sub(One, Abs(Sub(rem_euclid(Mul(Six, ColorHSIA_get_hue(x)), Two), One))))

\* C15: a conversion of a colour built by a validating constructor returns
\* a value; from_rgb divides by c only when c is not 0, its hue_minor is 0
\* or 1 and its array indices are in 0..2; the divisor 1 + z of from_hsi is
\* not 0; and the index i of to_rgb is 0, 1 or 2.
C15_Total ==
    (checked /\ Len(path) = 2) =>
        /\ ~IsPanic(color)
        /\ locals # None =>
            /\ locals.divides => ~Eq(locals.locals.c, Zero)
            /\ locals.locals.hue_minor \in {0, 1}
            /\ {locals.locals.i_min, locals.locals.i_max, locals.locals.hue_major} \subseteq 0..2
        /\ path[1] = "HSI" => ~Eq(HsiDivisor(orig), Zero)
        /\ path[2] = "RGB" => RedPlace \in {0, 1, 2}

\* C16: get_rgba of colors::Grays::new(v, a) is the RGBA (v', v', v', a')
\* with v' = clamp(v, 0, 1) and a' = clamp(a, 0, 1); get_rgba of
\* maps::Grays::new(a).get_color(ColorND::new(&[x])) is (x', x', x', a');
\* either way r = g = b and every component is in [0, 1].
C16_GraysExpand ==
    rgba # None =>
        /\ gray.fn = "new" =>
               rgba = ColorRGBA_new_unsafe(clamp(gray.of[1], Zero, One), clamp(gray.of[1], Zero, One),
                                           clamp(gray.of[1], Zero, One), clamp(gray.of[2], Zero, One))
        /\ gray.fn = "get_color" =>
               rgba = ColorRGBA_new_unsafe(clamp(nd.of[0], Zero, One), clamp(nd.of[0], Zero, One),
                                           clamp(nd.of[0], Zero, One), clamp(map.of, Zero, One))
        /\ rgba.r = rgba.g /\ rgba.g = rgba.b
        /\ InGamut(rgba) /\ InUnit(rgba.a)

C16_Witness ==
    /\ rgba # None
    /\ gray.fn = "get_color"
    /\ nd.of[0] = Rat(Den + 1, Den)
    /\ map.of = Rat(-1, AlphaDen)
    /\ rgba = ColorRGBA_new_unsafe(One, One, One, Zero)

\* C17: for every N and every array given to ColorND::new, construction
\* returns a value, get() has the N places of the array, and get()[k] is 0
\* when values[k] is below 0, 1 when it is above 1 and values[k] itself
\* when it is in [0, 1], whatever the other entries are.
C17_NdClampsEachEntry ==
    nd # None =>
        /\ ~IsPanic(nd.self)
        /\ nd.got # None =>
            /\ DOMAIN nd.got.get = 0..(nd.N - 1)
            /\ DOMAIN nd.got.get = DOMAIN nd.of
            /\ \A k \in DOMAIN nd.of :
                /\ Lt(nd.of[k], Zero) => nd.got.get[k] = Zero
                /\ Lt(One, nd.of[k]) => nd.got.get[k] = One
                /\ InUnit(nd.of[k]) => nd.got.get[k] = nd.of[k]

C17_Witness ==
    /\ nd # None /\ nd.got # None
    /\ nd.N = MaxN
    /\ nd.of[0] = Rat(-1, Den) /\ nd.of[1] = Rat(1, Den) /\ nd.of[MaxN - 1] = Rat(Den + 1, Den)
    /\ nd.got.get[0] = Zero /\ nd.got.get[1] = Rat(1, Den) /\ nd.got.get[MaxN - 1] = One

\* The last conversion started from an RGB colour with channels in [0, 1].
FromInGamut ==
    /\ locals # None
    /\ \A k \in 0..2 : InUnit(locals.locals.colors[k])

\* Channel k is a largest, a smallest, the only smallest channel.
IsMax(k) == k \in MaxPlaces(locals.locals.colors)

IsMin(k) == k \in MinPlaces(locals.locals.colors)

StrictMin(k) == MinPlaces(locals.locals.colors) = {k}

\* (colors[j] - colors[k]) / c.
Ratio(j, k) == Div(Sub(locals.locals.colors[j], locals.locals.colors[k]), hub.c)

\* The hue is hp / 6.
HueIs(hp) == Eq(hub.h, Div(hp, Six))

\* m, c and the hue of from_rgb are the standard six-sector values.
SixSector ==
    /\ \A k \in 0..2 : IsMin(k) => Eq(hub.m, locals.locals.colors[k])
    /\ \A j \in 0..2, k \in 0..2 :
           (IsMax(j) /\ IsMin(k)) =>
               Eq(hub.c, Sub(locals.locals.colors[j], locals.locals.colors[k]))
    /\ Lt(Zero, hub.c) =>
        /\ (IsMax(0) /\ IsMin(2)) => HueIs(Ratio(1, 2))
        /\ (IsMax(1) /\ IsMin(2)) => HueIs(Sub(Two, Ratio(0, 2)))
        /\ (IsMax(1) /\ IsMin(0)) => HueIs(Add(Two, Ratio(2, 0)))
        /\ (IsMax(2) /\ IsMin(0)) => HueIs(Sub(Rat(4, 1), Ratio(1, 0)))
        /\ (IsMax(2) /\ IsMin(1)) => HueIs(Add(Rat(4, 1), Ratio(0, 1)))
        /\ (IsMax(0) /\ StrictMin(1)) => HueIs(Sub(Six, Ratio(2, 1)))

\* C18: for every RGB colour with channels in [0, 1], from_rgb returns m the
\* smallest channel and c the largest minus the smallest, and when c > 0 the
\* hue is the six-sector value, 6h = (g-b)/c for red max and blue min up to
\* 6 - (b-g)/c for red max and green strictly min; the hue returned is
\* in [0, 1).
C18_SixSectorHue ==
    FromInGamut =>
        /\ SixSector
        /\ Le(Zero, hub.h)
        /\ Lt(hub.h, One)

\* The last conversion encoded the constructed HSI colour into hub.
EncodedHSI == Len(path) = 2 /\ path[1] = "HSI"

\* z = 1 - |((6h) mod 2) - 1| for the HSI colour x.
HsiZ(x) == Sub(One, Abs(Sub(rem_euclid(Mul(Six, x.h), Two), One)))

\* C19: for every HSI colour, from_hsi returns c = 3 i s / (1 + z) with
\* z = 1 - |((6h) mod 2) - 1|, m = i (1 - s) and the hue h as given; z is in
\* [0, 1], so the divisor 1 + z is in [1, 2] and is not zero.
C19_FromHsi ==
    EncodedHSI =>
        /\ hub.h = orig.h
        /\ Eq(hub.c, Div(Mul(Mul(Three, orig.i), orig.s), Add(One, HsiZ(orig))))
        /\ Eq(hub.m, Mul(orig.i, Sub(One, orig.s)))
        /\ InUnit(HsiZ(orig))
        /\ Le(One, Add(One, HsiZ(orig))) /\ Le(Add(One, HsiZ(orig)), Two)
        /\ ~Eq(Add(One, HsiZ(orig)), Zero)
        /\ \A h \in HueIn : InUnit(HsiZ([h |-> h]))

C19_Witness ==
    /\ EncodedHSI
    /\ Components("HSI", orig) = <<Rat(1, HueDen), One, Rat(1, Den), One>>
    /\ HsiZ(orig) = Rat(6, HueDen)
    /\ hub.h = Rat(1, HueDen)
    /\ hub.c = Div(Rat(3, Den), Add(One, Rat(6, HueDen)))
    /\ hub.m = Zero

\* The last conversion decoded hub into an HSV colour.
DecodedHSV == Len(path) >= 2 /\ Space = "HSV"

\* C20: to_hsv returns v = m + c and s = c / v, except that for v = 0 it
\* returns s = 0, not the quotient 0 / 0; for every hub value with c >= 0
\* and m >= 0 the s returned is in [0, 1].
C20_ToHsv ==
    DecodedHSV =>
        /\ Eq(color.v, Add(hub.m, hub.c))
        /\ Eq(Add(hub.m, hub.c), Zero) => (color.s = Zero /\ ~IsNaN(color.s))
        /\ ~Eq(Add(hub.m, hub.c), Zero) => Eq(color.s, Div(hub.c, Add(hub.m, hub.c)))
        /\ (Le(Zero, hub.c) /\ Le(Zero, hub.m)) => InUnit(color.s)

C20_Witness ==
    /\ path = <<"RGB", "HSV">>
    /\ Components("RGB", orig) = <<Rat(1, Den), One, Rat(1, Den), One>>
    /\ hub.m = Rat(1, Den) /\ hub.c = Rat(Den - 1, Den)
    /\ color.v = One /\ color.s = Rat(Den - 1, Den)

\* The last conversion decoded hub into an HSL colour.
DecodedHSL == Len(path) >= 2 /\ Space = "HSL"

\* z = 1 - |2l - 1| with l = m + c/2, for the hub value x.
HslZ(x) == Sub(One, Abs(Sub(Mul(Two, Add(x.m, Mul(Half, x.c))), One)))

\* c >= 0, m >= 0 and m + c <= 1.
HubInRange(x) == Le(Zero, x.c) /\ Le(Zero, x.m) /\ Le(Add(x.m, x.c), One)

\* l, and s with its guard, as to_hsl is to compute them.
HslFormulas ==
    /\ Eq(color.l, Add(hub.m, Mul(Half, hub.c)))
    /\ Eq(HslZ(hub), Zero) => (color.s = Zero /\ ~IsNaN(color.s))
    /\ ~Eq(HslZ(hub), Zero) => Eq(color.s, Div(hub.c, HslZ(hub)))

\* C21: to_hsl returns l = m + c/2 and s = c / z with z = 1 - |2l - 1|,
\* except that for z = 0 it returns s = 0, not a quotient by zero; for every
\* hub value with c >= 0, m >= 0 and m + c <= 1 the s returned is in [0, 1].
C21_ToHsl ==
    DecodedHSL =>
        /\ HslFormulas
        /\ HubInRange(hub) => InUnit(color.s)

\* The last conversion decoded hub into an HSI colour.
DecodedHSI == Len(path) >= 2 /\ Space = "HSI"

\* i = m + c (1 + z) / 3 with z = 1 - |((6h) mod 2) - 1|, for the hub value x.
HsiI(x) == Add(x.m, Div(Mul(x.c, Add(One, HsiZ(x))), Three))

\* to_hsi returned the intensity i and the saturation that goes with it.
HsiFormulas(i) ==
    /\ Eq(color.i, i)
    /\ Eq(i, Zero) => (color.s = Zero /\ ~IsNaN(color.s))
    /\ ~Eq(i, Zero) => Eq(color.s, Sub(One, Div(hub.m, i)))

\* C22: to_hsi returns i = m + c (1 + z) / 3 with z = 1 - |((6h) mod 2) - 1|
\* and s = 1 - m / i, except that for i = 0 it returns s = 0, not a quotient
\* by zero; for every hub value with c >= 0 and m >= 0 the s returned is in
\* [0, 1].
C22_ToHsi ==
    DecodedHSI =>
        /\ HsiFormulas(HsiI(hub))
        /\ (Le(Zero, hub.c) /\ Le(Zero, hub.m)) => InUnit(color.s)

C22_Witness ==
    /\ path = <<"RGB", "HSI">>
    /\ Components("RGB", orig) = <<One, Rat(1, Den), Rat(1, Den), One>>
    /\ hub.m = Rat(1, Den) /\ hub.c = Rat(Den - 1, Den)
    /\ color.i = Rat(Den + 2, 3 * Den) /\ color.s = Rat(Den - 1, Den + 2)

\* The number x is below n / d, compared exactly.
Below(x, n, d) ==
    IF IsF32(x)
    THEN IF x[2] < 0 THEN x[1] * d < n * 2^(-x[2]) ELSE x[1] * 2^x[2] * d < n
    ELSE QLt(x, Rat(n, d))

\* The channel of an RGB colour that holds the maximum, the minimum, at hue h.
MaxChannel(h) ==
    IF Below(h, 1, 6) \/ ~Below(h, 5, 6) THEN 1 ELSE IF Below(h, 1, 2) THEN 2 ELSE 3

MinChannel(h) == IF Below(h, 1, 3) THEN 3 ELSE IF Below(h, 2, 3) THEN 1 ELSE 2

\* The channel that is neither.
MidChannel(h) == 6 - MaxChannel(h) - MinChannel(h)

\* The RGB colour rgb holds m + c, m + c z and m of the hub value x in the
\* channels its hue names, and no channel is below m or above m + c.
Placed(x, rgb) ==
    /\ ~IsPanic(rgb)
    /\ Eq(Components("RGB", rgb)[MaxChannel(x.h)], Add(x.m, x.c))
    /\ Eq(Components("RGB", rgb)[MinChannel(x.h)], x.m)
    /\ Eq(Components("RGB", rgb)[MidChannel(x.h)], Add(x.m, Mul(x.c, HsiZ(x))))
    /\ \A k \in 1..3 :
        /\ Le(x.m, Components("RGB", rgb)[k])
        /\ Le(Components("RGB", rgb)[k], Add(x.m, x.c))

\* Hues next to the ends of the six sectors, in binary32.
SectorEdges == {Lit(k, 6) : k \in 1..5} \cup {Sub(One, Lit(1, 2^24))}

\* The hub value at the binary32 hue h, all of it in binary32.
Hub32(h) == [hub EXCEPT !.h = h, !.m = ToF32(hub.m), !.c = ToF32(hub.c)]

\* The last conversion decoded hub into an RGB colour.
DecodedRGB == Len(path) >= 2 /\ Space \in {"RGB", "panic"}

\* C23: for every hub value with h in [0, 1) and c >= 0, to_rgb returns
\* m + c, m + c z and m in the three channels, z = 1 - |((6h) mod 2) - 1|,
\* so that the minimum is m and the maximum m + c: the maximum in red for h
\* in [0, 1/6) and [5/6, 1), green for [1/6, 1/2), blue for [1/2, 5/6); the
\* minimum in blue for h in [0, 1/3), red for [1/3, 2/3), green for [2/3, 1).
C23_ChannelPlacement ==
    (DecodedRGB /\ Le(Zero, hub.c)) =>
        /\ (Le(Zero, hub.h) /\ Lt(hub.h, One)) => Placed(hub, color)
        /\ (checked /\ path = <<"HSV", "RGB">>) =>
               \A h \in SectorEdges : Placed(Hub32(h), to_rgb(Hub32(h)))

C23_Witness ==
    /\ path = <<"HSV", "RGB">>
    /\ Components("HSV", orig) = <<Rat((HueDen \div 2) + 1, HueDen), One, One, One>>
    /\ MaxChannel(hub.h) = 3 /\ MinChannel(hub.h) = 1
    /\ color.b = One /\ color.r = Zero /\ color.g = HsiZ(hub)
    /\ Lt(Zero, color.g) /\ Lt(color.g, One)

HueSpaces == {"HSV", "HSL", "HSI"}

\* The last conversion went from one hue-based space to another.
BetweenHueSpaces ==
    Len(path) >= 2 /\ path[Len(path) - 1] \in HueSpaces /\ Space \in HueSpaces

\* C24: a conversion between two of HSV, HSL and HSI returns the hue of its
\* argument as it is, for every argument, also when the saturation is 0 or
\* the colour is black or white; a conversion from RGB returns hue 0 for a
\* gray.
C24_HueCarried ==
    /\ BetweenHueSpaces =>
        /\ color.h = hub.h
        /\ Len(path) = 2 => (hub.h = orig.h /\ color.h = orig.h)
    /\ (FromGray /\ Space \in HueSpaces) => color.h = Zero

C24_Witness ==
    /\ path = <<"HSL", "HSV">>
    /\ Components("HSL", orig) = <<Rat(1, HueDen), Zero, One, One>>
    /\ Components("HSV", color) = <<Rat(1, HueDen), Zero, One, One>>

\* C25: each of the twelve conversions returns the alpha of its argument as
\* it is, whatever the other components are.
C25_AlphaCarried ==
    Len(path) >= 2 =>
        /\ ~IsPanic(color)
        /\ Components(Space, color)[4] = hub.a
        /\ Components(Space, color)[4] = Components(path[1], orig)[4]

C25_Witness ==
    /\ path = <<"RGB", "HSL">>
    /\ Components("RGB", orig) = <<One, Zero, Rat(1, Den), Rat(1, AlphaDen)>>
    /\ color.a = Rat(1, AlphaDen)
    /\ color.l = Half

\* A colour of RGB, HSV or HSL built by a validating constructor has been
\* converted once.
ConvertedValidated == checked /\ Len(path) = 2 /\ path[1] \in {"RGB", "HSV", "HSL"}

\* C26: for every colour of RGB, HSV or HSL built by a validating
\* constructor, the hub value has c >= 0, m >= 0, m + c <= 1 and a hue in
\* [0, 1), and each conversion to another space returns a hue in [0, 1) and
\* every other component in [0, 1].
C26_HubAndResultInRange ==
    ConvertedValidated =>
        /\ HubInRange(hub)
        /\ Le(Zero, hub.h) /\ Lt(hub.h, One)
        /\ ~IsPanic(color)
        /\ path[2] # "RGB" => (Le(Zero, color.h) /\ Lt(color.h, One))
        /\ \A k \in NonHue(path[2]) : InUnit(Components(path[2], color)[k])

\* A colour of a hue-based space with the hue in [0, 1) and every other
\* component in [0, 1] has been encoded into hub.
EncodedHue ==
    /\ Len(path) = 2 /\ path[1] \in HueSpaces
    /\ Le(Zero, orig.h) /\ Lt(orig.h, One)
    /\ \A k \in 2..4 : InUnit(Components(path[1], orig)[k])

\* A test has encoded the colour of a row of the reference table.
EncodedHueRow == test # NoTest /\ test.name \in {"from_hsv", "from_hsl", "from_hsi"}

\* The space and the colour of the row that test has encoded.
RowSpace == IF test.name = "from_hsv" THEN "HSV" ELSE IF test.name = "from_hsl" THEN "HSL" ELSE "HSI"

RowColor ==
    IF test.name = "from_hsv" THEN test_values[test.row].hsv
    ELSE IF test.name = "from_hsl" THEN test_values[test.row].hsl
    ELSE test_values[test.row].hsi

\* The points where the saturation carries no information.
Degenerate(ty, x) ==
    CASE ty = "HSV" -> Eq(x.v, Zero)
      [] ty = "HSL" -> Eq(x.l, Zero) \/ Eq(x.l, One)
      [] ty = "HSI" -> Eq(x.i, Zero)

\* x, with the saturation 0 at the degenerate points.
SaturationReset(ty, x) == IF Degenerate(ty, x) THEN [x EXCEPT !.s = Zero] ELSE x

\* The four components of two colours of space ty are the same numbers.
SameColor(ty, x, y) == \A k \in 1..4 : Eq(Components(ty, x)[k], Components(ty, y)[k])

\* C27: for in-range HSV, HSL and HSI colours, decoding the hub value of x
\* into the space of x returns x, with the saturation 0 when x is black
\* (HSV, HSI) or black or white (HSL), alpha as it is: the same numbers where
\* the arithmetic is exact, and within 0.001 in binary32.
C27_EncodeDecodeIdentity ==
    /\ EncodedHue =>
        /\ Within(path[1], Decode(path[1], hub), SaturationReset(path[1], orig))
        /\ (\A k \in 1..4 : ~IsF32(Components(path[1], orig)[k])) =>
               SameColor(path[1], Decode(path[1], hub), SaturationReset(path[1], orig))
    /\ EncodedHueRow =>
           Within(RowSpace, Decode(RowSpace, Encode(RowSpace, RowColor)),
                  SaturationReset(RowSpace, RowColor))

\* An HSL colour with the hue in [0, 1) and s, l and alpha in [0, 1].
InRangeHSL(x) ==
    /\ Le(Zero, x.h) /\ Lt(x.h, One)
    /\ InUnit(x.s) /\ InUnit(x.l) /\ InUnit(x.a)

\* The direct hsl_to_rgb has been called on an in-range colour.
DirectCalled == direct # None /\ InRangeHSL(direct.of)

\* The colour x with its hue moved half a step of the hue grid, off the
\* ends of the sectors.
OffGrid(x) == [x EXCEPT !.h = Add(x.h, Rat(1, 2 * HueDen))]

\* A test has read the HSL colour of a row of the reference table.
HslRow == test # NoTest /\ test.name = "from_hsl"

\* C28: the direct hsl_to_rgb of helper.rs returns the same RGBA as the
\* hub-routed hsl_to_rgb (from_hsl followed by to_rgb), up to the rounding of
\* binary32, for every HSL colour with h in [0, 1) and s, l, a in [0, 1].
C28_SameAsHubRouted ==
    /\ DirectCalled =>
        /\ Within("RGB", direct.rgb, hsl_to_rgb(direct.of))
        /\ Within("RGB", helper_hsl_to_rgb(OffGrid(direct.of)), hsl_to_rgb(OffGrid(direct.of)))
    /\ HslRow =>
           Within("RGB", helper_hsl_to_rgb(test_values[test.row].hsl),
                  hsl_to_rgb(test_values[test.row].hsl))

====
